---- MODULE Spec2Model ----
(***************************************************************************)
(* A model of glib/poppler-structure-element.cc: the structure element     *)
(* iterator (PopplerStructureElementIter), the tree walk documented with   *)
(* poppler_structure_element_iter_new, and the SpanBuilder that turns the  *)
(* marked-content operations of a content element into PopplerTextSpans.   *)
(*                                                                         *)
(* Six specifications share the document variables:                      *)
(*   Spec      iterators driven by arbitrary calls of the iterator API     *)
(*   SpecWalk  the documented walk_structure loop                          *)
(*   SpecSeg   poppler_structure_element_get_text_spans on one element     *)
(*   SpecElem  the getters and the finalizer of one PopplerStructureElement*)
(*   SpecAll   iterators, and the getters of the elements they return      *)
(*   SpecPair  two iterators stepped in any interleaving                   *)
(***************************************************************************)
EXTENDS Integers, Sequences, FiniteSets, TLC

\* ------------------------------------------------------------------------
\* Bounds of the model
\* ------------------------------------------------------------------------
MaxNodes == 4      \* structure elements in a document
MaxIters == 2      \* iterators alive at the same time
MaxNexts == 3      \* single calls of iter_next on one iterator
MaxOps == 4        \* marked-content operations of a generated element
MaxRequests == 2   \* calls of get_text_spans on the element
MaxElems == 1      \* PopplerStructureElement objects alive at the same time
MaxAttrs == 1      \* string attributes the node of the element supplies
MaxKindCalls == 2  \* calls of get_kind on the element
MaxPages == 1      \* pages of the document
MaxPairCalls == 3  \* calls on each of the two iterators of SpecPair

\* ------------------------------------------------------------------------
\* unsigned (guint): 32 bits, kept as two 16-bit words (hi, lo); arithmetic
\* is modulo 2^32
\* ------------------------------------------------------------------------
WordBase == 65536

U32(n) == [hi |-> n \div WordBase, lo |-> n % WordBase]

U32Add(u, v) ==
  LET lo == u.lo + v.lo
  IN  [hi |-> (u.hi + v.hi + (lo \div WordBase)) % WordBase, lo |-> lo % WordBase]

U32Less(u, v) == u.hi < v.hi \/ (u.hi = v.hi /\ u.lo < v.lo)

UINT_MAX == [hi |-> WordBase - 1, lo |-> WordBase - 1]

VARIABLES
  \* the document and its structure tree (StructTreeRoot, StructElement)
  hasStructTreeRoot,   \* doc->getStructTreeRoot () != NULL
  rootElements,        \* the elements of the StructTreeRoot, in order
  childElements,       \* the children of each StructElement, in order
  refCount,            \* GObject reference count of the PopplerDocument
  \* iterators (Spec)
  live,                \* identities of the allocated iterators
  iter,                \* the struct _PopplerStructureElementIter of each
  origin,              \* which call allocated the iterator
  calls,               \* single calls of iter_next made on the iterator
  repeated,            \* a run of UINT_MAX calls of iter_next was made on it
  lastRet,             \* return value of the latest iter_next on it
  sawFalse,            \* some iter_next on it has returned FALSE
  ret,                 \* the latest call of the iterator API and its result
  elems,               \* PopplerStructureElement objects not yet finalized
  aborted,             \* the process was aborted
  \* the documented walk (SpecWalk)
  wpc, wstack, visited,
  \* poppler_structure_element_get_text_spans (SpecSeg)
  mcops,               \* elem->getMCOps ()
  isContent,           \* elem->isContent ()
  text_spans,          \* poppler_structure_element->text_spans
  spc, pos,            \* position inside get_text_spans / process(ops)
  builder,             \* the SpanBuilder
  oldFlags, flushed,   \* locals of the latest process(op)
  requests, runs,      \* calls of get_text_spans, SpanBuilders constructed
  returned,            \* return value of the latest get_text_spans
  dirty,               \* flags changed on an empty text since the latest span
  marks,               \* per span emitted: dirty was FALSE when it was emitted
  \* the getters of one PopplerStructureElement (SpecElem)
  etype,               \* elem->getType ()
  present,             \* the strings the StructElement supplies (non-NULL)
  cached,              \* the string members of the element that are allocated
  kinds,               \* the values returned by get_kind, in call order
  pageRef,             \* elem->getPageRef () and what findPage makes of it
  page,                \* the value returned by the latest get_page
  wild,                \* the element wraps a pointer that is no element of the tree
  \* two iterators stepped side by side (SpecPair)
  start,               \* the iterators as they were handed out
  log                  \* per iterator: its calls and their results, in order

docVars == <<hasStructTreeRoot, rootElements, childElements, refCount>>
iterVars == <<live, iter, origin, calls, repeated, lastRet, sawFalse, ret,
              elems, aborted>>
walkVars == <<wpc, wstack, visited>>
segVars == <<mcops, isContent, text_spans, spc, pos, builder, oldFlags,
             flushed, requests, runs, returned, dirty, marks>>
elemVars == <<etype, present, cached, kinds, pageRef, page, wild>>
pairVars == <<start, log>>
vars == <<docVars, iterVars, walkVars, segVars, elemVars, pairVars>>

\* ------------------------------------------------------------------------
\* The structure tree
\* ------------------------------------------------------------------------
Nodes == 1 .. MaxNodes

\* a pointer that is neither NULL nor an element of the tree: what an access
\* behind the last element of a level finds there
WildElem == MaxNodes + 1

\* what getNumElements () finds in the object behind the last element: no
\* children, or a child (that is no element of the tree either)
StaleLists == { <<>>, <<WildElem>> }
IterIds == 1 .. MaxIters

RECURSIVE SortedSeq(_)
SortedSeq(S) ==
  IF S = {} THEN <<>>
  ELSE LET m == CHOOSE x \in S : \A y \in S : x <= y
       IN  <<m>> \o SortedSeq(S \ {m})

\* every forest over the elements 1..n: element k hangs below parent[k] < k,
\* 0 standing for the StructTreeRoot
Forests(n) == { p \in [1 .. n -> 0 .. n] : \A k \in 1 .. n : p[k] < k }

ChildrenOf(p, n, x) == SortedSeq({ k \in 1 .. n : p[k] = x })

RefInit == 1

\* the documents with at most m elements
InitDocUpTo(m) ==
  /\ hasStructTreeRoot \in BOOLEAN
  /\ \E n \in 0 .. m : \E p \in Forests(n) :
       /\ rootElements = (IF hasStructTreeRoot THEN ChildrenOf(p, n, 0) ELSE <<>>)
       /\ \E stale \in StaleLists :
            childElements = [x \in Nodes \cup {WildElem} |->
              IF x = WildElem THEN stale
              ELSE IF hasStructTreeRoot /\ x <= n THEN ChildrenOf(p, n, x) ELSE <<>>]
  /\ refCount = RefInit

InitDoc == InitDocUpTo(MaxNodes)

\* ------------------------------------------------------------------------
\* The iterator
\* ------------------------------------------------------------------------
NoIter == [is_root |-> FALSE, elem |-> 0, index |-> U32(0)]

\* iter->is_root ? iter->root->getNumElements () : iter->elem->getNumElements ()
getNumElements(it) ==
  IF it.is_root THEN U32(Len(rootElements)) ELSE U32(Len(childElements[it.elem]))

InBounds(it) == U32Less(it.index, getNumElements(it))

\* iter->is_root ? iter->root->getElement (index) : iter->elem->getElement (index)
getElement(it) ==
  IF it.is_root THEN rootElements[it.index.lo + 1]
  ELSE childElements[it.elem][it.index.lo + 1]


\* StructTreeRoot::getElement / StructElement::getElement as
\* poppler_structure_element_iter_get_element sees it: the element at a valid
\* index.  The caller passes iter->index unchecked, and at an index past the
\* end the result is undefined: the access itself is fatal, or no element (0,
\* a NULL pointer) comes back, or whatever lies behind the last element does
getElementOutcomes(it) ==
  IF InBounds(it)
  THEN { [fatal |-> FALSE, elem |-> getElement(it)] }
  ELSE { [fatal |-> TRUE, elem |-> 0],
         [fatal |-> FALSE, elem |-> 0],
         [fatal |-> FALSE, elem |-> WildElem] }

iter_new_no_count_check ==
  IF ~hasStructTreeRoot
  THEN [ok |-> FALSE, iter |-> NoIter]
  ELSE [ok |-> TRUE, iter |-> [is_root |-> TRUE, elem |-> 0, index |-> U32(0)]]

poppler_structure_element_iter_new ==
  IF ~hasStructTreeRoot
  THEN [ok |-> FALSE, iter |-> NoIter]
  ELSE IF Len(rootElements) = 0
  THEN [ok |-> FALSE, iter |-> NoIter]
  ELSE [ok |-> TRUE, iter |-> [is_root |-> TRUE, elem |-> 0, index |-> U32(0)]]

iter_next_post_increment(it) ==
  [iter |-> [it EXCEPT !.index = U32Add(@, U32(1))],
   ret  |-> U32Less(it.index, getNumElements(it))]

\* return ++iter->index < elements;
poppler_structure_element_iter_next(it) ==
  LET elements == getNumElements(it)
      index == U32Add(it.index, U32(1))
  IN  [iter |-> [it EXCEPT !.index = index], ret |-> U32Less(index, elements)]

iter_get_child_dup_parent(parent) ==
  { IF o.fatal \/ o.elem = 0
    THEN [abort |-> TRUE, ok |-> FALSE, iter |-> NoIter]
    ELSE IF Len(childElements[o.elem]) > 0
    THEN [abort |-> FALSE, ok |-> TRUE,
          iter |-> [is_root |-> FALSE, elem |-> o.elem, index |-> parent.index]]
    ELSE [abort |-> FALSE, ok |-> FALSE, iter |-> NoIter] :
    o \in getElementOutcomes(parent) }

iter_get_child_more_than_one(parent) ==
  { IF o.fatal \/ o.elem = 0
    THEN [abort |-> TRUE, ok |-> FALSE, iter |-> NoIter]
    ELSE IF Len(childElements[o.elem]) > 1
    THEN [abort |-> FALSE, ok |-> TRUE,
          iter |-> [is_root |-> FALSE, elem |-> o.elem, index |-> U32(0)]]
    ELSE [abort |-> FALSE, ok |-> FALSE, iter |-> NoIter] :
    o \in getElementOutcomes(parent) }

\* elem = getElement (parent->index), unchecked as in iter_get_element; then
\* "if (elem->getNumElements () > 0)" reads through the result: a NULL
\* result ends the process there, and the object behind the last element is
\* read as it is found
poppler_structure_element_iter_get_child(parent) ==
  { IF o.fatal \/ o.elem = 0
    THEN [abort |-> TRUE, ok |-> FALSE, iter |-> NoIter]
    ELSE IF Len(childElements[o.elem]) > 0
    THEN [abort |-> FALSE, ok |-> TRUE,
          iter |-> [is_root |-> FALSE, elem |-> o.elem, index |-> U32(0)]]
    ELSE [abort |-> FALSE, ok |-> FALSE, iter |-> NoIter] :
    o \in getElementOutcomes(parent) }

\* the StructElement wrapped by the PopplerStructureElement that is returned
poppler_structure_element_iter_get_element(it) == getElement(it)

iter_copy_from_start(it) == [it EXCEPT !.index = U32(0)]

\* g_slice_dup (PopplerStructureElementIter, iter)
poppler_structure_element_iter_copy(it) == it

\* g_assert (element); then the new object takes a reference on the document
_poppler_structure_element_new(element) ==
  IF element = 0
  THEN [abort |-> TRUE, elem |-> 0]
  ELSE [abort |-> FALSE, elem |-> element]

NoCall == [op |-> "none", arg |-> 0, before |-> NoIter, ok |-> FALSE, it |-> 0, refs |-> RefInit]

InitIterElems(n) ==
  /\ live = {}
  /\ iter = [i \in IterIds |-> NoIter]
  /\ origin = [i \in IterIds |-> "none"]
  /\ calls = [i \in IterIds |-> 0]
  /\ repeated = [i \in IterIds |-> FALSE]
  /\ lastRet = [i \in IterIds |-> TRUE]
  /\ sawFalse = [i \in IterIds |-> FALSE]
  /\ ret = NoCall
  /\ elems = n
  /\ aborted = FALSE

InitIter == InitIterElems(0)

Allocate_copy_without_ref(j, it, how, src) ==
  /\ live' = live \cup {j}
  /\ iter' = [iter EXCEPT ![j] = it]
  /\ origin' = [origin EXCEPT ![j] = how]
  /\ calls' = [calls EXCEPT ![j] = IF src = 0 THEN 0 ELSE calls[src]]
  /\ repeated' = [repeated EXCEPT ![j] = IF src = 0 THEN FALSE ELSE repeated[src]]
  /\ lastRet' = [lastRet EXCEPT ![j] = IF src = 0 THEN TRUE ELSE lastRet[src]]
  /\ sawFalse' = [sawFalse EXCEPT ![j] = IF src = 0 THEN FALSE ELSE sawFalse[src]]
  /\ refCount' = (IF how = "copy" THEN refCount ELSE refCount + 1)

\* a new iterator j; the record of the calls of iter_next starts empty, or,
\* for a copy, is the one of the position it duplicates
Allocate(j, it, how, src) ==
  /\ live' = live \cup {j}
  /\ iter' = [iter EXCEPT ![j] = it]
  /\ origin' = [origin EXCEPT ![j] = how]
  /\ calls' = [calls EXCEPT ![j] = IF src = 0 THEN 0 ELSE calls[src]]
  /\ repeated' = [repeated EXCEPT ![j] = IF src = 0 THEN FALSE ELSE repeated[src]]
  /\ lastRet' = [lastRet EXCEPT ![j] = IF src = 0 THEN TRUE ELSE lastRet[src]]
  /\ sawFalse' = [sawFalse EXCEPT ![j] = IF src = 0 THEN FALSE ELSE sawFalse[src]]
  /\ refCount' = refCount + 1

IterNew(j) ==
  /\ ~aborted
  /\ j \notin live
  /\ LET r == poppler_structure_element_iter_new
     IN  /\ ret' = [op |-> "new", arg |-> 0, before |-> NoIter, ok |-> r.ok,
                    it |-> IF r.ok THEN j ELSE 0, refs |-> refCount]
         /\ IF r.ok THEN Allocate(j, r.iter, "new", 0)
            ELSE UNCHANGED <<live, iter, origin, calls, repeated, lastRet,
                             sawFalse, refCount>>
  /\ UNCHANGED <<hasStructTreeRoot, rootElements, childElements, elems, aborted,
                 walkVars, segVars, elemVars, pairVars>>

IterCopy(i, j) ==
  /\ ~aborted
  /\ i \in live
  /\ j \notin live
  /\ ret' = [op |-> "copy", arg |-> i, before |-> iter[i], ok |-> TRUE,
             it |-> j, refs |-> refCount]
  /\ Allocate(j, poppler_structure_element_iter_copy(iter[i]), "copy", i)
  /\ UNCHANGED <<hasStructTreeRoot, rootElements, childElements, elems, aborted,
                 walkVars, segVars, elemVars, pairVars>>

\* the call reads through iter->elem: when that is the object behind the
\* last element of some level the read is undefined, and the process may end
\* there (or the call reads on, as below)
WildIterCrash(i) ==
  /\ ~iter[i].is_root
  /\ iter[i].elem = WildElem
  /\ aborted' = TRUE
  /\ UNCHANGED <<docVars, live, iter, origin, calls, repeated, lastRet, sawFalse,
                 ret, elems, walkVars, segVars, elemVars, pairVars>>

IterFree_deletes_elem(i) ==
  /\ ~aborted
  /\ i \in live
  /\ live' = live \ {i}
  /\ iter' = [iter EXCEPT ![i] = NoIter]
  /\ origin' = [origin EXCEPT ![i] = "none"]
  /\ calls' = [calls EXCEPT ![i] = 0]
  /\ repeated' = [repeated EXCEPT ![i] = FALSE]
  /\ lastRet' = [lastRet EXCEPT ![i] = TRUE]
  /\ sawFalse' = [sawFalse EXCEPT ![i] = FALSE]
  /\ refCount' = refCount - 1
  /\ ret' = [NoCall EXCEPT !.op = "free"]
  /\ childElements' = [x \in DOMAIN childElements |->
       IF ~iter[i].is_root /\ x = iter[i].elem THEN <<>> ELSE childElements[x]]
  /\ UNCHANGED <<hasStructTreeRoot, rootElements, elems, aborted, walkVars, segVars, elemVars, pairVars>>

IterFree(i) ==
  /\ ~aborted
  /\ i \in live
  /\ live' = live \ {i}
  /\ iter' = [iter EXCEPT ![i] = NoIter]
  /\ origin' = [origin EXCEPT ![i] = "none"]
  /\ calls' = [calls EXCEPT ![i] = 0]
  /\ repeated' = [repeated EXCEPT ![i] = FALSE]
  /\ lastRet' = [lastRet EXCEPT ![i] = TRUE]
  /\ sawFalse' = [sawFalse EXCEPT ![i] = FALSE]
  /\ refCount' = refCount - 1
  /\ ret' = [NoCall EXCEPT !.op = "free"]
  /\ UNCHANGED <<hasStructTreeRoot, rootElements, childElements, elems, aborted,
                 walkVars, segVars, elemVars, pairVars>>

IterNext(i) ==
  /\ ~aborted
  /\ i \in live
  /\ calls[i] < MaxNexts
  /\ \/ WildIterCrash(i)
     \/ /\ LET r == poppler_structure_element_iter_next(iter[i])
          IN  /\ iter' = [iter EXCEPT ![i] = r.iter]
              /\ lastRet' = [lastRet EXCEPT ![i] = r.ret]
              /\ sawFalse' = [sawFalse EXCEPT ![i] = @ \/ ~r.ret]
       /\ calls' = [calls EXCEPT ![i] = @ + 1]
       /\ ret' = NoCall
       /\ UNCHANGED <<docVars, live, origin, repeated, elems, aborted, walkVars, segVars, elemVars, pairVars>>

\* for (n = UINT_MAX; n > 0; n--) poppler_structure_element_iter_next (iter);
\* The index ends UINT_MAX increments further, modulo 2^32.  One of any
\* UINT_MAX consecutive indices is not below the number of elements, so one
\* of the calls has returned FALSE; the latest return value is the one of the
\* last call.
IterNextRepeat(i) ==
  /\ ~aborted
  /\ i \in live
  /\ ~repeated[i]
  /\ \/ WildIterCrash(i)
     \/ /\ LET index == U32Add(iter[i].index, UINT_MAX)
          IN  /\ iter' = [iter EXCEPT ![i].index = index]
              /\ lastRet' = [lastRet EXCEPT ![i] = U32Less(index, getNumElements(iter[i]))]
       /\ sawFalse' = [sawFalse EXCEPT ![i] = TRUE]
       /\ repeated' = [repeated EXCEPT ![i] = TRUE]
       /\ ret' = NoCall
       /\ UNCHANGED <<docVars, live, origin, calls, elems, aborted, walkVars, segVars, elemVars, pairVars>>

IterGetChild_in_place(p, j) ==
  /\ ~aborted
  /\ p \in live
  /\ j \notin live
  /\ \E r \in poppler_structure_element_iter_get_child(iter[p]) :
         /\ ret' = [op |-> "get_child", arg |-> p, before |-> iter[p], ok |-> r.ok,
                    it |-> IF r.ok THEN p ELSE 0, refs |-> refCount]
         /\ aborted' = r.abort
         /\ IF r.ok THEN iter' = [iter EXCEPT ![p] = r.iter]
            ELSE UNCHANGED iter
  /\ UNCHANGED <<live, origin, calls, repeated, lastRet, sawFalse, refCount>>
  /\ UNCHANGED <<hasStructTreeRoot, rootElements, childElements, elems,
                 walkVars, segVars, elemVars, pairVars>>

\* poppler_structure_element_iter_get_child has no bounds check: on an
\* iterator that is past the end of its level it ends the process, returns
\* NULL or returns an iterator over the object behind the last element
IterGetChild(p, j) ==
  /\ ~aborted
  /\ p \in live
  /\ j \notin live
  /\ \/ WildIterCrash(p)
     \/ /\ \E r \in poppler_structure_element_iter_get_child(iter[p]) :
              /\ ret' = [op |-> "get_child", arg |-> p, before |-> iter[p], ok |-> r.ok,
                         it |-> IF r.ok THEN j ELSE 0, refs |-> refCount]
              /\ aborted' = r.abort
              /\ IF r.ok THEN Allocate(j, r.iter, "get_child", 0)
                 ELSE UNCHANGED <<live, iter, origin, calls, repeated, lastRet,
                                  sawFalse, refCount>>
       /\ UNCHANGED <<hasStructTreeRoot, rootElements, childElements, elems,
                      walkVars, segVars, elemVars, pairVars>>

\* poppler_structure_element_iter_get_element: the element at the position of
\* the iterator, wrapped by _poppler_structure_element_new
IterGetElement(i) ==
  /\ ~aborted
  /\ i \in live
  /\ elems < MaxElems
  /\ \/ WildIterCrash(i)
     \/ /\ \E o \in getElementOutcomes(iter[i]) :
            LET r == IF o.fatal THEN [abort |-> TRUE, elem |-> 0]
                     ELSE _poppler_structure_element_new(o.elem)
            IN  /\ aborted' = r.abort
                /\ elems' = (IF r.abort THEN elems ELSE elems + 1)
                /\ refCount' = (IF r.abort THEN refCount ELSE refCount + 1)
                /\ ret' = [op |-> "get_element", arg |-> i, before |-> iter[i],
                           ok |-> ~r.abort, it |-> r.elem, refs |-> refCount]
                /\ wild' = (wild \/ r.elem = WildElem)
       /\ UNCHANGED <<hasStructTreeRoot, rootElements, childElements, live, iter,
                      origin, calls, repeated, lastRet, sawFalse, walkVars, segVars,
                      etype, present, cached, kinds, pageRef, page, pairVars>>

\* the gchar* members of struct _PopplerStructureElement that the getters fill
CacheFields ==
  { "id", "title", "text_abbrev", "language", "alt_text", "actual_text",
    "text", "text_r" }

\* the members that poppler_structure_element_finalize passes to g_free
FreedByFinalize == { "language", "text_r", "text", "title", "id" }

\* the last g_object_unref of an element: poppler_structure_element_finalize
\* frees five strings and the list of spans and drops the document reference
ElementFinalize ==
  /\ ~aborted
  /\ elems > 0
  /\ spc # "process"
  /\ elems' = elems - 1
  /\ refCount' = refCount - 1
  /\ cached' = cached \ FreedByFinalize
  /\ text_spans' = <<>>
  /\ ret' = [NoCall EXCEPT !.op = "free"]
  /\ wild' = (wild /\ elems > 1)
  /\ UNCHANGED <<hasStructTreeRoot, rootElements, childElements, live, iter,
                 origin, calls, repeated, lastRet, sawFalse, aborted, walkVars,
                 mcops, isContent, spc, pos, builder, oldFlags, flushed,
                 requests, runs, returned, dirty, marks, etype, present, kinds,
                 pageRef, page, pairVars>>

\* ------------------------------------------------------------------------
\* The walk documented with poppler_structure_element_iter_new:
\*
\*   walk_structure (iter) {
\*     do {
\*       /* Get the element and do something with it */
\*       child = poppler_structure_element_iter_get_child (iter);
\*       if (child) walk_structure (child);
\*       poppler_structure_element_iter_free (child);
\*     } while (poppler_structure_element_iter_next (iter));
\*   }
\*   iter = poppler_structure_element_iter_new (document);
\*   walk_structure (iter);
\*   poppler_structure_element_iter_free (iter);
\*
\* wstack holds the iterators of the active calls of walk_structure, the
\* innermost last; visited lists the elements obtained, in order.
\* ------------------------------------------------------------------------
InitWalk ==
  /\ wpc = "new"
  /\ wstack = <<>>
  /\ visited = <<>>

IdleWalk ==
  /\ wpc = "idle"
  /\ wstack = <<>>
  /\ visited = <<>>

Top(s) == s[Len(s)]
Pop(s) == SubSeq(s, 1, Len(s) - 1)

\* iter = poppler_structure_element_iter_new (document); a NULL iterator makes
\* every call of walk_structure return at its g_return_val_if_fail
WalkNew ==
  /\ wpc = "new"
  /\ LET r == poppler_structure_element_iter_new
     IN  IF r.ok
         THEN /\ wstack' = <<r.iter>>
              /\ refCount' = refCount + 1
              /\ wpc' = "body"
         ELSE /\ wstack' = <<>>
              /\ refCount' = refCount
              /\ wpc' = "done"
  /\ UNCHANGED <<hasStructTreeRoot, rootElements, childElements, visited,
                 iterVars, segVars, elemVars, pairVars>>

\* the body of the do loop, up to the recursive call
WalkBody ==
  /\ wpc = "body"
  /\ Len(visited) <= MaxNodes
  /\ IF ~InBounds(Top(wstack))
     THEN /\ wpc' = "abort"
          /\ UNCHANGED <<wstack, visited, refCount>>
     ELSE LET it == Top(wstack)
          IN  \E child \in poppler_structure_element_iter_get_child(it) :
              /\ visited' = Append(visited, poppler_structure_element_iter_get_element(it))
              /\ IF child.ok
                 THEN /\ wstack' = Append(wstack, child.iter)
                      /\ refCount' = refCount + 1
                      /\ wpc' = "body"
                 ELSE /\ wpc' = "next"
                      /\ UNCHANGED <<wstack, refCount>>
  /\ UNCHANGED <<hasStructTreeRoot, rootElements, childElements, iterVars, segVars, elemVars, pairVars>>

\* while (poppler_structure_element_iter_next (iter)); when it is FALSE the
\* call returns and its caller frees the iterator
WalkNext ==
  /\ wpc = "next"
  /\ LET r == poppler_structure_element_iter_next(Top(wstack))
     IN  IF r.ret
         THEN /\ wstack' = Append(Pop(wstack), r.iter)
              /\ wpc' = "body"
              /\ refCount' = refCount
         ELSE /\ wstack' = Pop(wstack)
              /\ refCount' = refCount - 1
              /\ wpc' = (IF Len(wstack) = 1 THEN "done" ELSE "next")
  /\ UNCHANGED <<hasStructTreeRoot, rootElements, childElements, visited,
                 iterVars, segVars, elemVars, pairVars>>

\* document order: every element before its children, siblings in stored order
RECURSIVE PreOrder(_)
PreOrder(s) ==
  IF s = <<>> THEN <<>>
  ELSE <<Head(s)>> \o PreOrder(childElements[Head(s)]) \o PreOrder(Tail(s))

\* ------------------------------------------------------------------------
\* Text spans: PopplerTextSpan flags, MCOp, SpanBuilder
\* ------------------------------------------------------------------------
POPPLER_TEXT_SPAN_FIXED_WIDTH == 1
POPPLER_TEXT_SPAN_SERIF_FONT == 2
POPPLER_TEXT_SPAN_ITALIC == 4
POPPLER_TEXT_SPAN_BOLD == 8
POPPLER_TEXT_SPAN_LINK == 16
POPPLER_TEXT_SPAN_COLOR == 32
POPPLER_TEXT_SPAN_FONT == 64

\* flags & bit, flags |= bit, flags &= ~bit for a single bit
HasBit(flags, bit) == (flags \div bit) % 2 = 1
SetBit(flags, bit) == IF HasBit(flags, bit) THEN flags ELSE flags + bit
ClearBit(flags, bit) == IF HasBit(flags, bit) THEN flags - bit ELSE flags

\* a NULL gchar pointer
NullStr == "(null)"

\* MCOp: a tagged record; flags is the set of MCOp::FlagFont* bits that are set
OpChar(u) == [type |-> "Unichar", unichar |-> u]
OpFlags(f) == [type |-> "Flags", flags |-> f]
OpColor(r, g, b) == [type |-> "Color", color |-> [r |-> r, g |-> g, b |-> b]]
OpFont(v) == [type |-> "FontName", value |-> v]

\* UnicodeMap::mapUnicode for the UTF-8 text encoding: the bytes of one character
mapUnicode(u) ==
  IF u < 128 THEN <<u>>
  ELSE IF u < 2048 THEN <<192 + (u \div 64), 128 + (u % 64)>>
  ELSE <<224 + (u \div 4096), 128 + ((u \div 64) % 64), 128 + (u % 64)>>

\* GfxRGB::rgbPixel: 0x00RRGGBB
rgbPixel(c) == c.r * 65536 + c.g * 256 + c.b

\* _poppler_goo_string_to_utf8 of a buffer that already holds the output text
goo_string_to_utf8(s) == s

\* SpanBuilder (): font (), text (), link (), glist (NULL), flags (0), color (0)
\* abort: an assertion of the builder has failed and ended the process
NewBuilder == [font |-> "", text |-> <<>>, link |-> "", glist |-> <<>>,
               flags |-> 0, color |-> 0, abort |-> FALSE]

\* the builder when "assert(flags & POPPLER_TEXT_SPAN_LINK)" fails: text and
\* font have been moved to the span, which is not yet in the list
AssertFailed(b) ==
  [font |-> "", text |-> <<>>, link |-> b.link, glist |-> b.glist,
   flags |-> b.flags, color |-> b.color, abort |-> TRUE]

newSpan_without_text_check(b) ==
  IF b.link # "" /\ ~HasBit(b.flags, POPPLER_TEXT_SPAN_LINK) THEN AssertFailed(b) ELSE
  LET span == [color |-> b.color,
               flags |-> b.flags,
               text |-> goo_string_to_utf8(b.text),
               font_name |-> IF b.font # "" THEN goo_string_to_utf8(b.font) ELSE NullStr,
               link_target |-> IF b.link # "" THEN goo_string_to_utf8(b.link) ELSE NullStr]
  IN  [b EXCEPT !.text = <<>>, !.font = "", !.link = "",
                !.glist = Append(@, span)]

newSpan_flags_link(b) ==
  IF Len(b.text) > 0
  THEN LET span == [color |-> b.color,
                    flags |-> SetBit(b.flags, POPPLER_TEXT_SPAN_LINK),
                    text |-> goo_string_to_utf8(b.text),
                    font_name |-> IF b.font # "" THEN goo_string_to_utf8(b.font) ELSE NullStr,
                    link_target |-> IF b.link # "" THEN goo_string_to_utf8(b.link) ELSE NullStr]
       IN  [b EXCEPT !.text = <<>>, !.font = "", !.link = "",
                     !.glist = Append(@, span)]
  ELSE [b EXCEPT !.link = ""]

\* SpanBuilder::newSpan
newSpan(b) ==
  IF Len(b.text) > 0
  THEN IF b.link # "" /\ ~HasBit(b.flags, POPPLER_TEXT_SPAN_LINK)
       THEN AssertFailed(b)
       ELSE LET span == [color |-> b.color,
                         flags |-> b.flags,
                         text |-> goo_string_to_utf8(b.text),
                         font_name |-> IF b.font # "" THEN goo_string_to_utf8(b.font) ELSE NullStr,
                         link_target |-> IF b.link # "" THEN goo_string_to_utf8(b.link) ELSE NullStr]
            IN  [b EXCEPT !.text = <<>>, !.font = "", !.link = "",
                          !.glist = Append(@, span)]
  ELSE [b EXCEPT !.link = ""]

\* the three style bits of a Flags operation
StyleFlags(flags, op) ==
  LET f1 == IF "FlagFontBold" \in op.flags
            THEN SetBit(flags, POPPLER_TEXT_SPAN_BOLD)
            ELSE ClearBit(flags, POPPLER_TEXT_SPAN_BOLD)
      f2 == IF "FlagFontFixed" \in op.flags
            THEN SetBit(f1, POPPLER_TEXT_SPAN_FIXED_WIDTH)
            ELSE ClearBit(f1, POPPLER_TEXT_SPAN_FIXED_WIDTH)
  IN  IF "FlagFontItalic" \in op.flags
      THEN SetBit(f2, POPPLER_TEXT_SPAN_ITALIC)
      ELSE ClearBit(f2, POPPLER_TEXT_SPAN_ITALIC)

\* SpanBuilder::process (const MCOp&), an operation that is not a character:
\* the builder before "if (flags != oldFlags)"
updateAttributes(b, op) ==
  LET f1 == IF op.type = "Flags" THEN StyleFlags(b.flags, op) ELSE b.flags
      \* color is assigned only when the operation is a Color (&& short-circuits)
      color == IF op.type = "Color" THEN rgbPixel(op.color) ELSE b.color
      f2 == IF op.type = "Color" /\ color # 0
            THEN SetBit(f1, POPPLER_TEXT_SPAN_COLOR)
            ELSE ClearBit(f1, POPPLER_TEXT_SPAN_COLOR)
      f3 == IF op.type = "FontName"
            THEN IF op.value # NullStr
                 THEN SetBit(f2, POPPLER_TEXT_SPAN_FONT)
                 ELSE ClearBit(f2, POPPLER_TEXT_SPAN_FONT)
            ELSE f2
      font == IF op.type = "FontName" /\ op.value # NullStr
              THEN b.font \o op.value
              ELSE b.font
  IN  [b EXCEPT !.flags = f3, !.color = color, !.font = font]

process_always_flush(b, op) ==
  IF op.type = "Unichar"
  THEN [b EXCEPT !.text = @ \o mapUnicode(op.unichar)]
  ELSE newSpan(updateAttributes(b, op))

\* SpanBuilder::process (const MCOp&)
process(b, op) ==
  IF op.type = "Unichar"
  THEN [b EXCEPT !.text = @ \o mapUnicode(op.unichar)]
  ELSE LET u == updateAttributes(b, op)
       IN  IF u.flags # b.flags THEN newSpan(u) ELSE u

\* SpanBuilder::end
end(b) == [result |-> b.glist, builder |-> [b EXCEPT !.glist = <<>>]]

\* ------------------------------------------------------------------------
\* The marked-content operations of the element
\* ------------------------------------------------------------------------
Alphabet ==
  { OpChar(65), OpChar(233) }
  \cup { OpFlags({}), OpFlags({"FlagFontBold"}), OpFlags({"FlagFontFixed", "FlagFontItalic"}) }
  \cup { OpColor(0, 0, 0), OpColor(255, 0, 0) }
  \cup { OpFont(NullStr), OpFont("Arial"), OpFont("Times") }

RECURSIVE SeqsUpTo(_, _)
SeqsUpTo(S, n) ==
  IF n = 0 THEN { <<>> }
  ELSE LET shorter == SeqsUpTo(S, n - 1)
       IN  shorter \cup { Append(s, x) : s \in { t \in shorter : Len(t) = n - 1 }, x \in S }

\* [char 'A', char 'B', flags{bold}, char 'C', flags{}, char 'D']
ScenarioBold ==
  << OpChar(65), OpChar(66), OpFlags({"FlagFontBold"}), OpChar(67), OpFlags({}), OpChar(68) >>

\* [flags{bold}, font "Arial", char 'X']
ScenarioLeading ==
  << OpFlags({"FlagFontBold"}), OpFont("Arial"), OpChar(88) >>

\* [char 'A', flags{bold}, flags{}, char 'A', flags{bold}]
ScenarioBoldAgain ==
  << OpChar(65), OpFlags({"FlagFontBold"}), OpFlags({}), OpChar(65), OpFlags({"FlagFontBold"}) >>

OpSeqs ==
  SeqsUpTo(Alphabet, MaxOps) \cup { ScenarioBold, ScenarioLeading, ScenarioBoldAgain }

\* the operations of the element whose getters are exercised
ElemOpSeqs == { <<>>, ScenarioBold }

InitSegOn(seqs) ==
  /\ mcops \in seqs
  /\ isContent \in BOOLEAN
  /\ text_spans = <<>>
  /\ spc = "idle"
  /\ pos = 0
  /\ builder = NewBuilder
  /\ oldFlags = 0
  /\ flushed = FALSE
  /\ requests = 0
  /\ runs = 0
  /\ returned = <<>>
  /\ dirty = FALSE
  /\ marks = <<>>

InitSeg == InitSegOn(OpSeqs)

IdleSeg ==
  /\ mcops = <<>>
  /\ isContent = FALSE
  /\ text_spans = <<>>
  /\ spc = "none"
  /\ pos = 0
  /\ builder = NewBuilder
  /\ oldFlags = 0
  /\ flushed = FALSE
  /\ requests = 0
  /\ runs = 0
  /\ returned = <<>>
  /\ dirty = FALSE
  /\ marks = <<>>

GetTextSpansCall_without_content_check ==
  /\ ~aborted
  /\ elems > 0
  /\ spc \in {"idle", "done"}
  /\ requests < MaxRequests
  /\ requests' = requests + 1
  /\ IF text_spans # <<>>
     THEN /\ returned' = text_spans
          /\ spc' = "done"
          /\ UNCHANGED <<pos, builder, runs, dirty, marks>>
     ELSE /\ builder' = NewBuilder
          /\ pos' = 0
          /\ runs' = runs + 1
          /\ spc' = "process"
          /\ dirty' = FALSE
          /\ marks' = <<>>
          /\ UNCHANGED returned
  /\ UNCHANGED <<mcops, isContent, text_spans, oldFlags, flushed,
                 docVars, iterVars, walkVars, elemVars, pairVars>>

\* poppler_structure_element_get_text_spans, up to the construction of the
\* SpanBuilder: the two early returns, or "SpanBuilder builder;"
GetTextSpansCall ==
  /\ ~aborted
  /\ elems > 0
  /\ spc \in {"idle", "done"}
  /\ requests < MaxRequests
  /\ requests' = requests + 1
  /\ IF ~isContent
     THEN /\ returned' = <<>>
          /\ spc' = "done"
          /\ UNCHANGED <<pos, builder, runs, dirty, marks>>
     ELSE IF text_spans # <<>>
     THEN /\ returned' = text_spans
          /\ spc' = "done"
          /\ UNCHANGED <<pos, builder, runs, dirty, marks>>
     ELSE /\ builder' = NewBuilder
          /\ pos' = 0
          /\ runs' = runs + 1
          /\ spc' = "process"
          /\ dirty' = FALSE
          /\ marks' = <<>>
          /\ UNCHANGED returned
  /\ UNCHANGED <<mcops, isContent, text_spans, oldFlags, flushed,
                 docVars, iterVars, walkVars, elemVars, pairVars>>

\* one turn of the loop of SpanBuilder::process (const MCOpArray&)
ProcessOp ==
  /\ ~aborted
  /\ spc = "process"
  /\ pos < Len(mcops)
  /\ LET op == mcops[pos + 1]
     IN  /\ builder' = process(builder, op)
         /\ oldFlags' = builder.flags
         /\ flushed' = (op.type # "Unichar" /\ updateAttributes(builder, op).flags # builder.flags)
         /\ LET after == process(builder, op)
                emitted == Len(after.glist) > Len(builder.glist)
            IN  /\ marks' = (IF emitted THEN Append(marks, ~dirty) ELSE marks)
                /\ dirty' = (IF emitted THEN FALSE
                             ELSE IF after.flags # builder.flags /\ Len(builder.text) = 0
                             THEN TRUE ELSE dirty)
  /\ pos' = pos + 1
  /\ aborted' = process(builder, mcops[pos + 1]).abort
  /\ UNCHANGED <<mcops, isContent, text_spans, spc, requests, runs, returned,
                 docVars, live, iter, origin, calls, repeated, lastRet, sawFalse,
                 ret, elems, walkVars, elemVars, pairVars>>

\* the loop is over: text_spans = builder.end (); return text_spans;
\* then ~SpanBuilder frees what is left in the builder
GetTextSpansReturn ==
  /\ ~aborted
  /\ spc = "process"
  /\ pos = Len(mcops)
  /\ text_spans' = end(builder).result
  /\ returned' = end(builder).result
  /\ builder' = NewBuilder
  /\ spc' = "done"
  /\ UNCHANGED <<mcops, isContent, pos, oldFlags, flushed, requests, runs,
                 dirty, marks, docVars, iterVars, walkVars, elemVars, pairVars>>

\* ------------------------------------------------------------------------
\* The getters of a PopplerStructureElement
\* ------------------------------------------------------------------------
\* StructElement::Type: the role tags of the structure tree
StructElementType ==
  {
    "Unknown", "MCID", "OBJR", "Document", "Part", "Art", "Sect", "Div",
    "Span", "Quote", "Note", "Reference", "BibEntry", "Code", "Link",
    "Annot", "Ruby", "Warichu", "BlockQuote", "Caption", "NonStruct", "TOC",
    "TOCI", "Index", "Private", "P", "H", "H1", "H2", "H3", "H4", "H5", "H6",
    "L", "LI", "Lbl", "LBody", "Table", "TR", "TH", "TD", "THead", "TFoot",
    "TBody", "Figure", "Formula", "Form"
  }

\* enum PopplerStructureElementKind
PopplerStructureElementKind ==
  {
    "POPPLER_STRUCTURE_ELEMENT_UNKNOWN", "POPPLER_STRUCTURE_ELEMENT_CONTENT",
    "POPPLER_STRUCTURE_ELEMENT_OBJECT_REFERENCE",
    "POPPLER_STRUCTURE_ELEMENT_DOCUMENT", "POPPLER_STRUCTURE_ELEMENT_PART",
    "POPPLER_STRUCTURE_ELEMENT_ARTICLE", "POPPLER_STRUCTURE_ELEMENT_SECTION",
    "POPPLER_STRUCTURE_ELEMENT_DIV", "POPPLER_STRUCTURE_ELEMENT_SPAN",
    "POPPLER_STRUCTURE_ELEMENT_QUOTE", "POPPLER_STRUCTURE_ELEMENT_NOTE",
    "POPPLER_STRUCTURE_ELEMENT_REFERENCE",
    "POPPLER_STRUCTURE_ELEMENT_BIBENTRY", "POPPLER_STRUCTURE_ELEMENT_CODE",
    "POPPLER_STRUCTURE_ELEMENT_LINK", "POPPLER_STRUCTURE_ELEMENT_ANNOT",
    "POPPLER_STRUCTURE_ELEMENT_RUBY", "POPPLER_STRUCTURE_ELEMENT_WARICHU",
    "POPPLER_STRUCTURE_ELEMENT_BLOCKQUOTE",
    "POPPLER_STRUCTURE_ELEMENT_CAPTION",
    "POPPLER_STRUCTURE_ELEMENT_NONSTRUCT", "POPPLER_STRUCTURE_ELEMENT_TOC",
    "POPPLER_STRUCTURE_ELEMENT_TOC_ITEM", "POPPLER_STRUCTURE_ELEMENT_INDEX",
    "POPPLER_STRUCTURE_ELEMENT_PRIVATE",
    "POPPLER_STRUCTURE_ELEMENT_PARAGRAPH",
    "POPPLER_STRUCTURE_ELEMENT_HEADING",
    "POPPLER_STRUCTURE_ELEMENT_HEADING_1",
    "POPPLER_STRUCTURE_ELEMENT_HEADING_2",
    "POPPLER_STRUCTURE_ELEMENT_HEADING_3",
    "POPPLER_STRUCTURE_ELEMENT_HEADING_4",
    "POPPLER_STRUCTURE_ELEMENT_HEADING_5",
    "POPPLER_STRUCTURE_ELEMENT_HEADING_6", "POPPLER_STRUCTURE_ELEMENT_LIST",
    "POPPLER_STRUCTURE_ELEMENT_LIST_ITEM",
    "POPPLER_STRUCTURE_ELEMENT_LIST_LABEL",
    "POPPLER_STRUCTURE_ELEMENT_LIST_BODY", "POPPLER_STRUCTURE_ELEMENT_TABLE",
    "POPPLER_STRUCTURE_ELEMENT_TABLE_ROW",
    "POPPLER_STRUCTURE_ELEMENT_TABLE_HEADING",
    "POPPLER_STRUCTURE_ELEMENT_TABLE_DATA",
    "POPPLER_STRUCTURE_ELEMENT_TABLE_HEADER",
    "POPPLER_STRUCTURE_ELEMENT_TABLE_FOOTER",
    "POPPLER_STRUCTURE_ELEMENT_TABLE_BODY",
    "POPPLER_STRUCTURE_ELEMENT_FIGURE", "POPPLER_STRUCTURE_ELEMENT_FORMULA",
    "POPPLER_STRUCTURE_ELEMENT_FORM"
  }

\* the case labels of the switch and the value each returns, in source order
KindCases ==
  <<
    <<"Unknown", "POPPLER_STRUCTURE_ELEMENT_UNKNOWN">>,
    <<"MCID", "POPPLER_STRUCTURE_ELEMENT_CONTENT">>,
    <<"OBJR", "POPPLER_STRUCTURE_ELEMENT_OBJECT_REFERENCE">>,
    <<"Document", "POPPLER_STRUCTURE_ELEMENT_DOCUMENT">>,
    <<"Part", "POPPLER_STRUCTURE_ELEMENT_PART">>,
    <<"Sect", "POPPLER_STRUCTURE_ELEMENT_SECTION">>,
    <<"Div", "POPPLER_STRUCTURE_ELEMENT_DIV">>,
    <<"Span", "POPPLER_STRUCTURE_ELEMENT_SPAN">>,
    <<"Quote", "POPPLER_STRUCTURE_ELEMENT_QUOTE">>,
    <<"Note", "POPPLER_STRUCTURE_ELEMENT_NOTE">>,
    <<"Reference", "POPPLER_STRUCTURE_ELEMENT_REFERENCE">>,
    <<"BibEntry", "POPPLER_STRUCTURE_ELEMENT_BIBENTRY">>,
    <<"Code", "POPPLER_STRUCTURE_ELEMENT_CODE">>,
    <<"Link", "POPPLER_STRUCTURE_ELEMENT_LINK">>,
    <<"Annot", "POPPLER_STRUCTURE_ELEMENT_ANNOT">>,
    <<"Ruby", "POPPLER_STRUCTURE_ELEMENT_RUBY">>,
    <<"Warichu", "POPPLER_STRUCTURE_ELEMENT_WARICHU">>,
    <<"BlockQuote", "POPPLER_STRUCTURE_ELEMENT_BLOCKQUOTE">>,
    <<"Caption", "POPPLER_STRUCTURE_ELEMENT_CAPTION">>,
    <<"NonStruct", "POPPLER_STRUCTURE_ELEMENT_NONSTRUCT">>,
    <<"TOC", "POPPLER_STRUCTURE_ELEMENT_TOC">>,
    <<"TOCI", "POPPLER_STRUCTURE_ELEMENT_TOC_ITEM">>,
    <<"Index", "POPPLER_STRUCTURE_ELEMENT_INDEX">>,
    <<"Private", "POPPLER_STRUCTURE_ELEMENT_PRIVATE">>,
    <<"P", "POPPLER_STRUCTURE_ELEMENT_PARAGRAPH">>,
    <<"H", "POPPLER_STRUCTURE_ELEMENT_HEADING">>,
    <<"H1", "POPPLER_STRUCTURE_ELEMENT_HEADING_1">>,
    <<"H2", "POPPLER_STRUCTURE_ELEMENT_HEADING_2">>,
    <<"H3", "POPPLER_STRUCTURE_ELEMENT_HEADING_3">>,
    <<"H4", "POPPLER_STRUCTURE_ELEMENT_HEADING_4">>,
    <<"H5", "POPPLER_STRUCTURE_ELEMENT_HEADING_5">>,
    <<"H6", "POPPLER_STRUCTURE_ELEMENT_HEADING_6">>,
    <<"L", "POPPLER_STRUCTURE_ELEMENT_LIST">>,
    <<"LI", "POPPLER_STRUCTURE_ELEMENT_LIST_ITEM">>,
    <<"Lbl", "POPPLER_STRUCTURE_ELEMENT_LIST_LABEL">>,
    <<"LBody", "POPPLER_STRUCTURE_ELEMENT_LIST_BODY">>,
    <<"Table", "POPPLER_STRUCTURE_ELEMENT_TABLE">>,
    <<"TR", "POPPLER_STRUCTURE_ELEMENT_TABLE_ROW">>,
    <<"TH", "POPPLER_STRUCTURE_ELEMENT_TABLE_HEADING">>,
    <<"TD", "POPPLER_STRUCTURE_ELEMENT_TABLE_DATA">>,
    <<"THead", "POPPLER_STRUCTURE_ELEMENT_TABLE_HEADER">>,
    <<"TFoot", "POPPLER_STRUCTURE_ELEMENT_TABLE_FOOTER">>,
    <<"TBody", "POPPLER_STRUCTURE_ELEMENT_TABLE_BODY">>,
    <<"Figure", "POPPLER_STRUCTURE_ELEMENT_FIGURE">>,
    <<"Formula", "POPPLER_STRUCTURE_ELEMENT_FORMULA">>,
    <<"Form", "POPPLER_STRUCTURE_ELEMENT_FORM">>
  >>

\* _poppler_structelement_type_to_poppler_structure_element_kind: the value of
\* the matching case, or "default: g_assert_not_reached ();"
_poppler_structelement_type_to_poppler_structure_element_kind(type) ==
  IF \E k \in 1 .. Len(KindCases) : KindCases[k][1] = type
  THEN [abort |-> FALSE,
        kind |-> KindCases[CHOOSE k \in 1 .. Len(KindCases) : KindCases[k][1] = type][2]]
  ELSE [abort |-> TRUE, kind |-> "none"]

\* no element is being queried
\* elem->getPageRef (ref) is false (ref FALSE), or true with found the value
\* of findPage (ref.num, ref.gen): a page number from 1, or 0 for no page
PageRefs ==
  { [ref |-> FALSE, found |-> 0] } \cup { [ref |-> TRUE, found |-> n] : n \in 0 .. MaxPages }

\* get_page has not been called
NoPage == [called |-> FALSE, value |-> 0]

IdleElem ==
  /\ etype = "Unknown"
  /\ present = {}
  /\ cached = {}
  /\ kinds = <<>>
  /\ pageRef = [ref |-> FALSE, found |-> 0]
  /\ page = NoPage
  /\ wild = FALSE

\* g_object_new zero-fills the element: every cache member is NULL
InitElem ==
  /\ etype \in StructElementType
  /\ present \in { a \in SUBSET CacheFields : Cardinality(a) <= MaxAttrs }
  /\ cached = {}
  /\ kinds = <<>>
  /\ pageRef \in PageRefs
  /\ page = NoPage
  /\ wild = FALSE

\* the node behind every element of the document of SpecAll: a paragraph on
\* the first page with a text
InitNode ==
  /\ etype = "P"
  /\ present = {"text"}
  /\ cached = {}
  /\ kinds = <<>>
  /\ pageRef = [ref |-> TRUE, found |-> 1]
  /\ page = NoPage
  /\ wild = FALSE

\* poppler_structure_element_get_page: findPage (...) - 1, or -1
poppler_structure_element_get_page(pr) ==
  IF pr.ref THEN pr.found - 1 ELSE -1

\* a getter reads through poppler_structure_element->elem: when that is no
\* element of the tree the read is undefined, and the process may end there
\* (or the getter reads on, as below)
WildCrash ==
  /\ wild
  /\ aborted' = TRUE
  /\ UNCHANGED <<docVars, live, iter, origin, calls, repeated, lastRet, sawFalse,
                 ret, elems, walkVars, segVars, elemVars, pairVars>>

GetPage ==
  /\ ~aborted
  /\ elems > 0
  /\ spc # "process"
  /\ \/ WildCrash
     \/ /\ page' = [called |-> TRUE, value |-> poppler_structure_element_get_page(pageRef)]
        /\ UNCHANGED <<docVars, iterVars, walkVars, segVars, etype, present, cached,
                       kinds, pageRef, wild, pairVars>>

\* poppler_structure_element_get_kind
GetKind ==
  /\ ~aborted
  /\ elems > 0
  /\ spc # "process"
  /\ Len(kinds) < MaxKindCalls
  /\ \/ WildCrash
     \/ /\ LET r == _poppler_structelement_type_to_poppler_structure_element_kind(etype)
           IN  /\ aborted' = r.abort
               /\ kinds' = (IF r.abort THEN kinds ELSE Append(kinds, r.kind))
        /\ UNCHANGED <<docVars, live, iter, origin, calls, repeated, lastRet,
                       sawFalse, ret, elems, walkVars, segVars, etype, present,
                       cached, pageRef, page, wild, pairVars>>

\* "if (!member && elem->getX ()) member = _poppler_goo_string_to_utf8 (...)":
\* the members allocated after the getter of member f
get_string(f) ==
  IF f \notin cached /\ f \in present THEN cached \cup {f} ELSE cached

\* poppler_structure_element_get_abbreviation returns NULL at once for an
\* element that is not a Span
get_abbreviation ==
  IF etype # "Span" THEN cached ELSE get_string("text_abbrev")

\* poppler_structure_element_get_id, _get_title, _get_abbreviation,
\* _get_language, _get_alt_text, _get_actual_text and _get_text (recursive or
\* not): one call of the getter of member f
GetString(f) ==
  /\ ~aborted
  /\ elems > 0
  /\ spc # "process"
  /\ \/ WildCrash
     \/ /\ cached' = (IF f = "text_abbrev" THEN get_abbreviation ELSE get_string(f))
        /\ UNCHANGED <<docVars, iterVars, walkVars, segVars, etype, present, kinds,
                       pageRef, page, wild, pairVars>>

\* poppler_structure_element_get_text_spans on the element, while it is alive
ElemGetTextSpans ==
  /\ ~aborted
  /\ elems > 0
  /\ \/ spc # "process" /\ WildCrash
     \/ GetTextSpansCall
     \/ ProcessOp
     \/ GetTextSpansReturn

\* ------------------------------------------------------------------------
\* Specifications
\* ------------------------------------------------------------------------
\* the two iterators of SpecPair
PairIds == { 1, 2 }

IdlePair ==
  /\ start = [i \in PairIds |-> NoIter]
  /\ log = [i \in PairIds |-> <<>>]

\* the iterators are exercised on the documents of up to MaxNodes - 1 elements
Init == InitDocUpTo(MaxNodes - 1) /\ InitIter /\ IdleWalk /\ IdleSeg /\ IdleElem /\ IdlePair

Next ==
  \/ \E j \in IterIds : IterNew(j)
  \/ \E i, j \in IterIds : IterCopy(i, j)
  \/ \E i \in IterIds : IterFree(i)
  \/ \E i \in IterIds : IterNext(i)
  \/ \E i \in IterIds : IterNextRepeat(i)
  \/ \E p, j \in IterIds : IterGetChild(p, j)
  \/ \E i \in IterIds : IterGetElement(i)
  \/ ElementFinalize

Spec == Init /\ [][Next]_vars

InitW == InitDoc /\ InitIter /\ InitWalk /\ IdleSeg /\ IdleElem /\ IdlePair

NextWalk == WalkNew \/ WalkBody \/ WalkNext

\* the walk is a sequential program: it keeps running until it returns
SpecWalk == InitW /\ [][NextWalk]_vars /\ WF_vars(NextWalk)

NoDocumentHeld(n) ==
  /\ hasStructTreeRoot = FALSE
  /\ rootElements = <<>>
  /\ childElements = [x \in Nodes \cup {WildElem} |-> <<>>]
  /\ refCount = RefInit + n

\* the element queried was made by _poppler_structure_element_new and holds
\* a reference on the document
InitS == NoDocumentHeld(1) /\ InitIterElems(1) /\ IdleWalk /\ InitSeg /\ IdleElem /\ IdlePair

NextSeg == GetTextSpansCall \/ ProcessOp \/ GetTextSpansReturn

SpecSeg == InitS /\ [][NextSeg]_vars

\* one element, made by _poppler_structure_element_new, holds the document
InitE == NoDocumentHeld(1) /\ InitIterElems(1) /\ IdleWalk /\ InitSegOn(ElemOpSeqs) /\ InitElem /\ IdlePair

NextElem ==
  \/ GetKind
  \/ GetPage
  \/ \E f \in CacheFields : GetString(f)
  \/ ElemGetTextSpans
  \/ ElementFinalize

SpecElem == InitE /\ [][NextElem]_vars

\* a document with a structure tree whose elements are content paragraphs:
\* iterators over it, and the getters of the elements the iterators return
InitA ==
  /\ InitDocUpTo(MaxNodes - 2)
  /\ InitIter
  /\ IdleWalk
  /\ InitSegOn({ ScenarioLeading })
  /\ isContent
  /\ InitNode
  /\ IdlePair

NextAll ==
  \/ \E j \in IterIds : IterNew(j)
  \/ \E i, j \in IterIds : IterCopy(i, j)
  \/ \E i \in IterIds : IterFree(i)
  \/ \E i \in IterIds : IterNext(i)
  \/ \E p, j \in IterIds : IterGetChild(p, j)
  \/ \E i \in IterIds : IterGetElement(i)
  \/ ElementFinalize
  \/ GetKind
  \/ GetPage
  \/ \E f \in CacheFields : GetString(f)
  \/ ElemGetTextSpans

SpecAll == InitA /\ [][NextAll]_vars

\* ------------------------------------------------------------------------
\* Two iterators over one document
\* ------------------------------------------------------------------------
\* the iterators that iter_new and iter_get_child hand out on the document
NewIters ==
  { [is_root |-> TRUE, elem |-> 0, index |-> U32(0)] :
      x \in { y \in {0} : poppler_structure_element_iter_new.ok } }
  \cup { [is_root |-> FALSE, elem |-> n, index |-> U32(0)] :
           n \in { m \in Nodes : Len(childElements[m]) > 0 } }

\* what one call on an iterator gave back: the gboolean of iter_next, the
\* element of iter_get_element, the iterator of iter_get_child (NULL: ok is
\* FALSE), or the end of the process
Result(op, ok, abort, elem, child) ==
  [op |-> op, ok |-> ok, abort |-> abort, elem |-> elem, child |-> child]

\* a document and two iterators on it, each held by the caller
InitP ==
  /\ hasStructTreeRoot \in BOOLEAN
  /\ \E n \in 0 .. MaxNodes - 1 : \E p \in Forests(n) :
       /\ rootElements = (IF hasStructTreeRoot THEN ChildrenOf(p, n, 0) ELSE <<>>)
       /\ \E stale \in StaleLists :
            childElements = [x \in Nodes \cup {WildElem} |->
              IF x = WildElem THEN stale
              ELSE IF hasStructTreeRoot /\ x <= n THEN ChildrenOf(p, n, x) ELSE <<>>]
  /\ start \in [PairIds -> NewIters]
  /\ log = [i \in PairIds |-> <<>>]
  /\ refCount = RefInit + Cardinality(PairIds)
  /\ live = PairIds
  /\ iter = [i \in IterIds |-> IF i \in PairIds THEN start[i] ELSE NoIter]
  /\ origin = [i \in IterIds |-> "none"]
  /\ calls = [i \in IterIds |-> 0]
  /\ repeated = [i \in IterIds |-> FALSE]
  /\ lastRet = [i \in IterIds |-> TRUE]
  /\ sawFalse = [i \in IterIds |-> FALSE]
  /\ ret = NoCall
  /\ elems = 0
  /\ aborted = FALSE
  /\ IdleWalk
  /\ IdleSeg
  /\ IdleElem

PairNext_shared_index(i) ==
  /\ ~aborted
  /\ i \in live \cap PairIds
  /\ Len(log[i]) < MaxPairCalls
  /\ LET r == poppler_structure_element_iter_next(iter[i])
     IN  /\ iter' = [j \in IterIds |->
                IF j \in live /\ iter[j].is_root = iter[i].is_root
                               /\ iter[j].elem = iter[i].elem
                THEN r.iter ELSE iter[j]]
         /\ log' = [log EXCEPT ![i] = Append(@, Result("next", r.ret, FALSE, 0, NoIter))]
  /\ UNCHANGED <<docVars, live, origin, calls, repeated, lastRet, sawFalse, ret,
                 elems, aborted, walkVars, segVars, elemVars, start>>

\* poppler_structure_element_iter_next on one of the two
PairNext(i) ==
  /\ ~aborted
  /\ i \in live \cap PairIds
  /\ Len(log[i]) < MaxPairCalls
  /\ LET r == poppler_structure_element_iter_next(iter[i])
     IN  /\ iter' = [iter EXCEPT ![i] = r.iter]
         /\ log' = [log EXCEPT ![i] = Append(@, Result("next", r.ret, FALSE, 0, NoIter))]
  /\ UNCHANGED <<docVars, live, origin, calls, repeated, lastRet, sawFalse, ret,
                 elems, aborted, walkVars, segVars, elemVars, start>>

\* poppler_structure_element_iter_get_element on one of the two
PairGetElement(i) ==
  /\ ~aborted
  /\ i \in live \cap PairIds
  /\ Len(log[i]) < MaxPairCalls
  /\ \E o \in getElementOutcomes(iter[i]) :
       LET r == IF o.fatal THEN [abort |-> TRUE, elem |-> 0]
                ELSE _poppler_structure_element_new(o.elem)
       IN  /\ aborted' = r.abort
           /\ elems' = (IF r.abort THEN elems ELSE elems + 1)
           /\ refCount' = (IF r.abort THEN refCount ELSE refCount + 1)
           /\ wild' = (wild \/ r.elem = WildElem)
           /\ log' = [log EXCEPT ![i] =
                        Append(@, Result("get_element", ~r.abort, r.abort, r.elem, NoIter))]
  /\ UNCHANGED <<hasStructTreeRoot, rootElements, childElements, live, iter,
                 origin, calls, repeated, lastRet, sawFalse, ret, walkVars,
                 segVars, etype, present, cached, kinds, pageRef, page, start>>

\* poppler_structure_element_iter_get_child on one of the two: the new
\* iterator is the result, and it holds a reference on the document
PairGetChild(i) ==
  /\ ~aborted
  /\ i \in live \cap PairIds
  /\ Len(log[i]) < MaxPairCalls
  /\ \E r \in poppler_structure_element_iter_get_child(iter[i]) :
         /\ aborted' = r.abort
         /\ refCount' = (IF r.ok THEN refCount + 1 ELSE refCount)
         /\ log' = [log EXCEPT ![i] =
                      Append(@, Result("get_child", r.ok, r.abort, 0, r.iter))]
  /\ UNCHANGED <<hasStructTreeRoot, rootElements, childElements, live, iter,
                 origin, calls, repeated, lastRet, sawFalse, ret, elems, walkVars,
                 segVars, elemVars, start>>

NextPair ==
  \/ \E i \in PairIds : PairNext(i)
  \/ \E i \in PairIds : PairGetElement(i)
  \/ \E i \in PairIds : PairGetChild(i)

SpecPair == InitP /\ [][NextPair]_vars

\* ------------------------------------------------------------------------
\* Properties of the text spans (SpecSeg)
\* ------------------------------------------------------------------------
\* the transcoded characters of the character operations, in input order
RECURSIVE AllChars(_)
AllChars(ops) ==
  IF ops = <<>> THEN <<>>
  ELSE (IF Head(ops).type = "Unichar" THEN mapUnicode(Head(ops).unichar) ELSE <<>>)
       \o AllChars(Tail(ops))

\* the texts of a list of spans, concatenated
RECURSIVE ConcatText(_)
ConcatText(spans) ==
  IF spans = <<>> THEN <<>> ELSE Head(spans).text \o ConcatText(Tail(spans))

Segmented == spc = "done" /\ isContent

TextAndBold(spans) ==
  [k \in 1 .. Len(spans) |->
     [text |-> spans[k].text, bold |-> HasBit(spans[k].flags, POPPLER_TEXT_SPAN_BOLD)]]

\* C1: when get_text_spans has returned for a content element, the texts of
\* the spans, concatenated in order, are the transcoded characters of all the
\* character operations: the characters after the last attribute change are
\* flushed at the end of the input and none is lost.
C1_NoCharacterLost ==
  Segmented => ConcatText(text_spans) = AllChars(mcops)

\* C2: [char A, char B, flags{bold}, char C, flags{}, char D] gives exactly the
\* spans ("AB", not bold), ("C", bold), ("D", not bold), in this order.
C2_BoldScenario ==
  (Segmented /\ mcops = ScenarioBold) =>
    TextAndBold(text_spans) =
      << [text |-> <<65, 66>>, bold |-> FALSE],
         [text |-> <<67>>, bold |-> TRUE],
         [text |-> <<68>>, bold |-> FALSE] >>

\* C3: a non-empty sequence of character operations only gives exactly one
\* span, with all the characters in order and flags 0.
C3_OnlyCharacters ==
  (Segmented /\ mcops # <<>> /\ \A k \in 1 .. Len(mcops) : mcops[k].type = "Unichar") =>
    /\ Len(text_spans) = 1
    /\ text_spans[1].text = AllChars(mcops)
    /\ text_spans[1].flags = 0

\* C4: [flags{bold}, font "Arial", char X] gives exactly one span: text "X",
\* bold set, has-font-name set, font name "Arial"; no empty span is produced.
C4_LeadingAttributes ==
  (Segmented /\ mcops = ScenarioLeading) =>
    /\ Len(text_spans) = 1
    /\ text_spans[1].text = <<88>>
    /\ HasBit(text_spans[1].flags, POPPLER_TEXT_SPAN_BOLD)
    /\ HasBit(text_spans[1].flags, POPPLER_TEXT_SPAN_FONT)
    /\ text_spans[1].font_name = "Arial"

SameStyle(flags, op) ==
  /\ HasBit(flags, POPPLER_TEXT_SPAN_BOLD) <=> ("FlagFontBold" \in op.flags)
  /\ HasBit(flags, POPPLER_TEXT_SPAN_FIXED_WIDTH) <=> ("FlagFontFixed" \in op.flags)
  /\ HasBit(flags, POPPLER_TEXT_SPAN_ITALIC) <=> ("FlagFontItalic" \in op.flags)

\* C5: in any state of the builder, a Flags operation whose bold, fixed-width
\* and italic bits are the ones the builder already has does not call newSpan.
C5_SameStyleNoFlush ==
  (spc = "process" /\ pos > 0 /\ mcops[pos].type = "Flags" /\ SameStyle(oldFlags, mcops[pos]))
    => ~flushed

\* ------------------------------------------------------------------------
\* Properties of the iterator (Spec) and of the walk (SpecWalk)
\* ------------------------------------------------------------------------
\* C6: an iterator made by iter_new on a tree with N >= 1 top-level elements
\* stands on the root indices 0 .. N-1 in turn: the first N-1 calls of
\* iter_next return TRUE and the N-th returns FALSE.
C6_RootLevelVisitsN ==
  \A i \in live :
    (origin[i] = "new" /\ ~repeated[i]) =>
      /\ iter[i].is_root
      /\ Len(rootElements) >= 1
      /\ calls[i] < Len(rootElements) => iter[i].index = U32(calls[i])
      /\ calls[i] \in 1 .. Len(rootElements) => (lastRet[i] <=> calls[i] < Len(rootElements))

C6_Witness ==
  \E i \in live :
    /\ origin[i] = "new" /\ ~repeated[i]
    /\ Len(rootElements) >= 2
    /\ calls[i] = Len(rootElements)
    /\ ~lastRet[i]

\* C7: iter_get_child on an iterator that stands on an element returns NULL
\* exactly when the element has no children; otherwise the iterator returned
\* is at that element, index 0, and iter_next on it returns FALSE for the
\* first time on the call whose number is the number of children.
C7_GetChild ==
  /\ (ret.op = "get_child" /\ InBounds(ret.before)) =>
       LET elem == getElement(ret.before)
       IN  /\ ret.ok <=> Len(childElements[elem]) > 0
           /\ ret.ok => iter[ret.it] = [is_root |-> FALSE, elem |-> elem, index |-> U32(0)]
  /\ \A i \in live :
       (origin[i] = "get_child" /\ ~repeated[i]) =>
         LET n == Len(childElements[iter[i].elem])
         IN  /\ n >= 1
             /\ calls[i] \in 1 .. n => (lastRet[i] <=> calls[i] < n)

C7_Witness ==
  \E i \in live :
    /\ origin[i] = "get_child" /\ ~repeated[i]
    /\ Len(childElements[iter[i].elem]) >= 2
    /\ calls[i] = Len(childElements[iter[i].elem])
    /\ ~lastRet[i]

\* C8: the documented walk terminates, and when it has it has obtained every
\* element of the tree exactly once, in pre-order document order.
C8_WalkPreOrder ==
  /\ <>(wpc = "done")
  /\ [](wpc = "done" => visited = PreOrder(rootElements))

C8_Witness ==
  /\ wpc = "done"
  /\ Len(rootElements) >= 2
  /\ \E n \in Nodes : Len(childElements[n]) >= 1
  /\ Len(visited) >= 3

\* C9: iter_new returns NULL and takes no reference on the document when the
\* document has no structure tree or the tree has no top-level element;
\* otherwise it returns an iterator at the root level with index 0.
C9_IterNew ==
  ret.op = "new" =>
    IF ~hasStructTreeRoot \/ Len(rootElements) = 0
    THEN ~ret.ok /\ refCount = ret.refs
    ELSE /\ ret.ok
         /\ ret.it \in live
         /\ iter[ret.it].is_root
         /\ iter[ret.it].index = U32(0)

C9_Witness ==
  ret.op = "new" /\ hasStructTreeRoot /\ Len(rootElements) = 0 /\ ~ret.ok

\* C10: once iter_next has returned FALSE on an iterator, every later call on
\* it returns FALSE as well, however many calls are made: the index does not
\* wrap around.
C10_StaysExhausted ==
  \A i \in live : sawFalse[i] => ~lastRet[i]

\* C11 as claimed: in every reachable state the index of every iterator is
\* below the number of elements of its level.
C11_IndexInBounds ==
  \A i \in live : InBounds(iter[i])

\* C11: the index of an iterator is below the number of elements of its level
\* as long as no iter_next has returned FALSE on it (or, for a copy, on the
\* iterator it duplicates, before the copy).
C11_InBoundsUntilExhausted ==
  \A i \in live : ~sawFalse[i] => InBounds(iter[i])

C11_Witness ==
  \E i \in live :
    origin[i] = "get_child" /\ calls[i] >= 1 /\ ~sawFalse[i] /\ InBounds(iter[i])

\* C12: however often the spans of a content element are requested, a
\* SpanBuilder runs over its operations at most once.
C12_SegmentedOnce ==
  isContent => runs <= 1

\* C13: get_text_spans on an element that is not content returns NULL, does
\* not abort, never constructs a SpanBuilder over the operations and leaves
\* text_spans as it was.
C13_NotContent ==
  ~isContent =>
    /\ spc \in {"idle", "done"}
    /\ runs = 0
    /\ pos = 0
    /\ returned = <<>>
    /\ text_spans = <<>>
    /\ ~aborted

C13_Witness ==
  ~isContent /\ spc = "done" /\ requests = MaxRequests /\ Len(mcops) >= 2

\* C14 as claimed: iter_get_element on an iterator whose index is past the
\* end of its level aborts and returns no element.
C14_OutOfBoundsAborts ==
  (ret.op = "get_element" /\ ~InBounds(ret.before)) => (aborted /\ ~ret.ok)

\* C15: the reference count of the document is its initial value plus one
\* for every iterator not yet freed and one for every element not yet
\* finalized; it is the initial value again when all of them are released.
C15_RefCount ==
  refCount = RefInit + Cardinality(live) + elems

C15_Witness ==
  ret.op = "free" /\ live = {} /\ elems = 0 /\ refCount = RefInit

\* the results that one call gives on an iterator that nobody else steps,
\* each with the iterator as the call leaves it
Alone(c, op) ==
  IF op = "next"
  THEN LET r == poppler_structure_element_iter_next(c)
       IN  { [res |-> Result("next", r.ret, FALSE, 0, NoIter), iter |-> r.iter] }
  ELSE IF op = "get_element"
  THEN { LET r == IF o.fatal THEN [abort |-> TRUE, elem |-> 0]
                  ELSE _poppler_structure_element_new(o.elem)
         IN  [res |-> Result("get_element", ~r.abort, r.abort, r.elem, NoIter),
              iter |-> c] : o \in getElementOutcomes(c) }
  ELSE { [res |-> Result("get_child", r.ok, r.abort, 0, r.iter), iter |-> c] :
         r \in poppler_structure_element_iter_get_child(c) }

\* the runs of the calls ops, made in this order on an iterator that starts
\* as c and that nobody else steps: the sequence of the results, and the
\* iterator as the last call leaves it; the end of the process ends the run
RECURSIVE SoloRuns(_, _)
SoloRuns(c, ops) ==
  IF ops = <<>> THEN { [results |-> <<>>, iter |-> c] }
  ELSE UNION { IF o.res.abort
               THEN (IF Len(ops) = 1
                     THEN { [results |-> <<o.res>>, iter |-> o.iter] } ELSE {})
               ELSE { [results |-> <<o.res>> \o t.results, iter |-> t.iter] :
                      t \in SoloRuns(o.iter, Tail(ops)) } :
               o \in Alone(c, Head(ops)) }

CallsOf(l) == [k \in 1 .. Len(l) |-> l[k].op]

\* C16: of two iterators over one document that are stepped in any
\* interleaving of iter_next, iter_get_element and iter_get_child, each has
\* got the results that its calls give when it is stepped alone, and its
\* level and index are those that its own calls alone lead to: no call on
\* the other iterator has changed them.
C16_SameAsAlone ==
  \A i \in PairIds :
    [results |-> log[i], iter |-> iter[i]] \in SoloRuns(start[i], CallsOf(log[i]))

\* two iterators handed out at the same place: both have been advanced and
\* have handed out a child iterator and an element, the second its element
\* after it was advanced, which is another element than that of the first
C16_Witness ==
  /\ ~aborted
  /\ start[1] = start[2]
  /\ \A i \in PairIds :
       /\ \E k \in 1 .. Len(log[i]) : log[i][k].op = "next"
       /\ \E k \in 1 .. Len(log[i]) : log[i][k].op = "get_child" /\ log[i][k].ok
  /\ \E k, m \in 1 .. Len(log[2]) :
       /\ k < m
       /\ log[2][k].op = "next" /\ log[2][k].ok
       /\ log[2][m].op = "get_element" /\ log[2][m].ok
       /\ \E n \in 1 .. Len(log[1]) :
            /\ log[1][n].op = "get_element" /\ log[1][n].ok
            /\ log[1][n].elem # log[2][m].elem

\* C17: no step of an iterator or of an element (new, copy, next,
\* get_element, get_child, free, finalize, get_kind, get_page, the text
\* getters, get_text_spans) changes the structure tree: the root list, the
\* child list of every element, the role tag, the page and the strings of
\* the node, and its marked-content operations stay as they were.
C17_TreeUnchanged ==
  [][UNCHANGED <<hasStructTreeRoot, rootElements, childElements, etype, present,
                 pageRef, mcops, isContent>>]_vars

\* an iterator returned by get_child has been advanced next to a copy, and
\* the element taken from an iterator has answered get_kind, get_page,
\* get_text and get_text_spans
C17_Witness ==
  /\ ~aborted
  /\ elems > 0 /\ ~wild
  /\ \E i, j \in live :
       origin[i] = "get_child" /\ calls[i] >= 1 /\ origin[j] = "copy"
  /\ Len(kinds) >= 1
  /\ page.called
  /\ "text" \in cached
  /\ spc = "done" /\ runs >= 1

\* C18: iter_copy returns an iterator with the level and index of its
\* argument, and afterwards a step that moves a copy or the iterator copied
\* leaves the other one where it was.
C18_Copy ==
  /\ [](ret.op = "copy" => (iter[ret.it] = ret.before /\ iter[ret.arg] = ret.before))
  /\ [][\A i, j \in live \cap live' :
          (i # j /\ (origin[i] = "copy" \/ origin[j] = "copy") /\ iter'[i].index # iter[i].index)
            => iter'[j] = iter[j]]_vars

C18_Witness ==
  \E i, j \in live :
    /\ origin[i] = "new" /\ origin[j] = "copy"
    /\ iter[j].is_root
    /\ calls[j] > calls[i]
    /\ iter[i].index = U32(1) /\ iter[j].index = U32(2)

\* C19: iter_get_child leaves its argument where it was, whether it returns
\* an iterator or NULL, and a later iter_next on the iterator returned does
\* not move any other iterator.
C19_GetChildFrame ==
  /\ [](ret.op = "get_child" => (ret.arg \in live /\ iter[ret.arg] = ret.before))
  /\ [][\A i, j \in live \cap live' :
          (i # j /\ origin[i] = "get_child" /\ iter'[i] # iter[i]) => iter'[j] = iter[j]]_vars

C19_Witness ==
  \E i, j \in live :
    /\ origin[i] = "get_child" /\ calls[i] >= 1
    /\ origin[j] = "new" /\ iter[j].index = U32(1) /\ InBounds(iter[j])
    /\ iter[i].elem = getElement(iter[j])

SpansNow == IF spc = "process" THEN builder.glist ELSE text_spans

\* C20 as claimed: no two consecutive spans returned have the same flags.
C20_NoEqualNeighbours ==
  Segmented =>
    \A k \in 1 .. Len(text_spans) - 1 : text_spans[k].flags # text_spans[k + 1].flags

\* C20: two consecutive spans have different flags whenever the flags did not
\* change on an empty text buffer between the two.
C20_NeighboursDiffer ==
  \A k \in 1 .. Len(SpansNow) - 1 :
    marks[k + 1] => SpansNow[k].flags # SpansNow[k + 1].flags

C20_Witness ==
  Segmented /\ Len(text_spans) >= 2 /\ marks[2] /\ text_spans[1].flags # 0

\* the spans held by the builder, stored in the element or returned
AllSpanLists == { builder.glist, text_spans, returned }

\* C21: every span emitted has a non-empty text: a call of newSpan with an
\* empty text buffer appends nothing to the list.
C21_NonEmptyText ==
  \A l \in AllSpanLists : \A k \in 1 .. Len(l) : Len(l[k].text) > 0

\* newSpan was called on an empty text buffer after a span had been emitted
C21_Witness ==
  spc = "process" /\ flushed /\ dirty /\ Len(builder.glist) > 0

\* C22: a span has POPPLER_TEXT_SPAN_LINK only if it has a link target, and
\* the link buffer is non-empty only while POPPLER_TEXT_SPAN_LINK is set (the
\* assertion of newSpan holds whenever it is evaluated).
C22_LinkFlag ==
  /\ ~aborted /\ ~builder.abort
  /\ builder.link # "" => HasBit(builder.flags, POPPLER_TEXT_SPAN_LINK)
  /\ \A l \in AllSpanLists : \A k \in 1 .. Len(l) :
       /\ HasBit(l[k].flags, POPPLER_TEXT_SPAN_LINK) => l[k].link_target # NullStr
       /\ l[k].link_target # NullStr => HasBit(l[k].flags, POPPLER_TEXT_SPAN_LINK)

\* a span was emitted with no link target accumulated
C22_Witness ==
  /\ Segmented
  /\ Len(text_spans) > 0
  /\ text_spans[1].link_target = NullStr
  /\ ~HasBit(text_spans[1].flags, POPPLER_TEXT_SPAN_LINK)

\* C25 as claimed: a Flags or FontName operation leaves the has-color bit of
\* the builder as it was before the operation (only a Color operation changes
\* the color state).
C25_OnlyColorChangesColor ==
  (spc = "process" /\ pos > 0 /\ mcops[pos].type \in {"Flags", "FontName"})
    => (HasBit(builder.flags, POPPLER_TEXT_SPAN_COLOR)
          <=> HasBit(oldFlags, POPPLER_TEXT_SPAN_COLOR))

\* the value of the latest FontName operation among the first n operations
RECURSIVE LastFontName(_, _)
LastFontName(ops, n) ==
  IF n = 0 THEN NullStr
  ELSE IF ops[n].type = "FontName" THEN ops[n].value
  ELSE LastFontName(ops, n - 1)

\* C26 as claimed: a span emitted by process() has a font name exactly when
\* its POPPLER_TEXT_SPAN_FONT bit is set, and the name is the value of the
\* most recent FontName operation, not a concatenation of several.
C26_FontName ==
  [][(spc = "process" /\ Len(builder'.glist) > Len(builder.glist))
       => LET s == builder'.glist[Len(builder'.glist)]
          IN  /\ (s.font_name # NullStr) <=> HasBit(s.flags, POPPLER_TEXT_SPAN_FONT)
              /\ s.font_name # NullStr => s.font_name = LastFontName(mcops, pos')]_vars

\* C27 as claimed: a span whose POPPLER_TEXT_SPAN_COLOR bit is clear has the
\* color 0.
C27_ColorOnlyWithBit ==
  \A l \in AllSpanLists : \A k \in 1 .. Len(l) :
    l[k].color # 0 => HasBit(l[k].flags, POPPLER_TEXT_SPAN_COLOR)

\* ------------------------------------------------------------------------
\* Properties of the element (SpecElem)
\* ------------------------------------------------------------------------
\* C23 as claimed: get_kind returns a kind, without aborting, for every role
\* tag; its value is the same at every call on the element; and two different
\* role tags never have the same kind.
C23_ClassifierTotalInjective ==
  /\ ~aborted
  /\ \A k \in 1 .. Len(kinds) :
       kinds[k] \in PopplerStructureElementKind /\ kinds[k] = kinds[1]
  /\ \A t \in StructElementType \ {etype} :
       LET r1 == _poppler_structelement_type_to_poppler_structure_element_kind(etype)
           r2 == _poppler_structelement_type_to_poppler_structure_element_kind(t)
       IN  (~r1.abort /\ ~r2.abort) => r1.kind # r2.kind

\* C28 as claimed: once the element is finalized none of its cached strings
\* and no span of its list is still allocated.
C28_FinalizeFreesAll ==
  elems = 0 => (cached = {} /\ text_spans = <<>>)

====
